---------------------------- MODULE Spec2Model ----------------------------
(***************************************************************************)
(* State-machine model of the BESS dashboard front-end:                    *)
(*   - BessDashboard: the active section and the view it mounts            *)
(*   - BessNavigation: the three navigation items                          *)
(*   - ForecastingSection: selected date, image handle map, the effect     *)
(*     that fetches one image per forecast panel and the asynchronous      *)
(*     continuation of every fetch                                         *)
(*   - PredictionsSection / OverviewSection: the embedded provider URLs    *)
(***************************************************************************)
EXTENDS Integers, Sequences, FiniteSets, TLC

VARIABLES
    activeSection,  \* BessDashboard: useState<string>("overview")
    viewId,         \* identity of the mounted ForecastingSection instance, 0 when none is mounted
    mounts,         \* number of ForecastingSection instances mounted so far
    selectedDate,   \* ForecastingSection: useState<Date>(new Date()); Undefined when no date is held
    images,         \* ForecastingSection: useState<{[key: string]: string}>({})
    requests,       \* every fetch(url) issued so far, in issue order, with its status
    objectURLs,     \* object URLs created by URL.createObjectURL and not revoked
    uncaught        \* errors that escaped a fetch task

vars == <<activeSection, viewId, mounts, selectedDate, images, requests, objectURLs, uncaught>>

----------------------------------------------------------------------------
(* Bounds of the model *)

\* number of times the fetching effect may run (mounts plus date selections)
MaxEffectRuns == 2

----------------------------------------------------------------------------
(* Dates *)

\* the value of a state cell that holds no Date (JavaScript undefined)
Undefined == [undefined |-> TRUE]

\* a JavaScript Date in local time: getFullYear(), getMonth() (0-based), getDate(), getHours()
MkDate(y, m, d, h) == [year |-> y, month |-> m, day |-> d, hours |-> h]

\* new Date() at the time the forecasting view mounts: 1 June 2025, 14h
Today == MkDate(2025, 5, 1, 14)

\* the days the calendar popover offers, each delivered as a Date at local midnight
CalendarDays == { MkDate(2025, 5, 1, 0), MkDate(2025, 11, 31, 0) }

\* react-day-picker's isSameDay: same calendar day, whatever the time of day
isSameDay(a, b) == a.year = b.year /\ a.month = b.month /\ a.day = b.day

DigitChars == <<"0", "1", "2", "3", "4", "5", "6", "7", "8", "9">>

RECURSIVE Pow10(_)
Pow10(n) == IF n = 0 THEN 1 ELSE 10 * Pow10(n - 1)

\* date-fns addLeadingZeros: the decimal digits of n, left-padded with "0" to `width` characters
addLeadingZeros(n, width) ==
    [i \in 1..width |-> DigitChars[((n \div Pow10(width - i)) % 10) + 1]]

\* a 0-based month rendered without the +1 of the MM token
formatMonthOffByOne(date) ==
    addLeadingZeros(date.year, 4) \o <<"-">> \o addLeadingZeros(date.month, 2)
        \o <<"-">> \o addLeadingZeros(date.day, 2)

\* date-fns format(date, "yyyy-MM-dd"): yyyy = year, MM = getMonth() + 1, dd = getDate()
format(date) ==
    addLeadingZeros(date.year, 4) \o <<"-">> \o addLeadingZeros(date.month + 1, 2)
        \o <<"-">> \o addLeadingZeros(date.day, 2)

----------------------------------------------------------------------------
(* Static descriptors *)

\* BessNavigation: navigationItems[i].id
navigationItems == <<"overview", "forecasting", "predictions">>

SectionIds == { navigationItems[i] : i \in 1..Len(navigationItems) }

\* a navigation whose overview item is always highlighted
isActiveOrOverview(active, id) == active = id \/ id = "overview"

\* BessNavigation: const isActive = activeSection === item.id
isActive(active, id) == active = id

\* ForecastingSection: forecastImages
forecastImages ==
    << [id |-> "energy-demand",      apiEndpoint |-> "http://localhost:8000/plot-soc"],
       [id |-> "price-optimization", apiEndpoint |-> "http://localhost:8000/plot-revenue"] >>

PanelIds == { forecastImages[i].id : i \in 1..Len(forecastImages) }

\* the state value `{}` of images
NoImages == [p \in {} |-> 0]

----------------------------------------------------------------------------
(* BessDashboard *)

\* a switch whose forecasting and predictions cases are exchanged
renderActiveSectionSwapped(section) ==
    CASE section = "overview"    -> "OverviewSection"
      [] section = "forecasting" -> "PredictionsSection"
      [] section = "predictions" -> "ForecastingSection"
      [] OTHER                   -> "OverviewSection"

\* BessDashboard.renderActiveSection: the component mounted in the main area
renderActiveSection(section) ==
    CASE section = "overview"    -> "OverviewSection"
      [] section = "forecasting" -> "ForecastingSection"
      [] section = "predictions" -> "PredictionsSection"
      [] OTHER                   -> "OverviewSection"

\* a navigation click that toggles: clicking the active item falls back to the overview
setActiveSectionToggle(prev, section) == IF prev = section THEN "overview" ELSE section

\* setActiveSection(item.id): the state cell takes the value passed
setActiveSection(prev, section) == section

----------------------------------------------------------------------------
(* ForecastingSection: the effect *)

\* the effect body run for the first forecast panel only
useEffectFirstPanelOnly(reqs, vid, date) ==
    LET dateStr == IF date # Undefined THEN format(date) ELSE <<>>
    IN  reqs \o << [panel  |-> forecastImages[1].id,
                     url    |-> <<forecastImages[1].apiEndpoint, "?date=", dateStr>>,
                     view   |-> vid,
                     status |-> "pending"] >>

\* an effect that aborts the view's requests still in flight before issuing the new ones
useEffectAborting(reqs, vid, date) ==
    LET dateStr == IF date # Undefined THEN format(date) ELSE <<>>
        aborted == [k \in 1..Len(reqs) |->
                       IF reqs[k].view = vid /\ reqs[k].status = "pending"
                         THEN [reqs[k] EXCEPT !.status = "failed"] ELSE reqs[k]]
    IN  aborted \o [i \in 1..Len(forecastImages) |->
                       [panel  |-> forecastImages[i].id,
                        url    |-> <<forecastImages[i].apiEndpoint, "?date=", dateStr>>,
                        view   |-> vid,
                        status |-> "pending"]]

\* useEffect(() => forecastImages.forEach(async forecast => ... fetch(url) ...), [selectedDate]):
\* one request per forecast panel, in panel order, each with the date string of the render
useEffect(reqs, vid, date) ==
    LET dateStr == IF date # Undefined THEN format(date) ELSE <<>>
    IN  reqs \o [i \in 1..Len(forecastImages) |->
                    [panel  |-> forecastImages[i].id,
                     url    |-> <<forecastImages[i].apiEndpoint, "?date=", dateStr>>,
                     view   |-> vid,
                     status |-> "pending"]]

\* number of times the effect has run
EffectRuns == Len(requests) \div Len(forecastImages)

----------------------------------------------------------------------------
(* ForecastingSection: the calendar *)

\* Calendar mode="single" onSelect: clicking the day already selected deselects it and
\* delivers undefined; clicking any other day delivers that day
onSelect(selected, day) ==
    IF selected # Undefined /\ isSameDay(day, selected) THEN Undefined ELSE day

----------------------------------------------------------------------------
(* ForecastingSection: the continuation of one fetch *)

\* what the Forecast Image endpoint may answer to one request:
\*   ok        status 200, body is a decodable image
\*   malformed status 200, body is not decodable as an image
\*   http500   a non-OK status
\*   neterr    the transport fails: `await fetch(url)` or `await res.blob()` rejects
Responses == {"ok", "malformed", "http500", "neterr"}

\* an awaited promise of the task rejects
awaitRejects(r) == r = "neterr"

\* a success test that also requires the body to be a decodable image
resOkAndDecodable(r) == r = "ok"

\* res.ok: the status is in 200..299, whatever the body holds
resOk(r) == r \in {"ok", "malformed"}

\* an update that replaces the whole map by the new entry
setImagesReplaceAll(prev, id, imgUrl) == [p \in {id} |-> imgUrl]

\* an update that stores every reference under the first forecast panel's identifier
setImagesUnderFirstPanel(prev, id, imgUrl) ==
    [p \in (DOMAIN prev) \cup {forecastImages[1].id} |->
        IF p = forecastImages[1].id THEN imgUrl ELSE prev[p]]

\* setImages(prev => ({ ...prev, [forecast.id]: imgUrl }))
setImages(prev, id, imgUrl) ==
    [p \in (DOMAIN prev) \cup {id} |-> IF p = id THEN imgUrl ELSE prev[p]]

\* a failure path that clears the panel's image
onFailureClearsImage(prev, id) == [p \in (DOMAIN prev) \ {id} |-> prev[p]]

\* the paths of the task that store nothing (res.ok false, or the empty catch block):
\* the handle map stays as it is
onFailure(prev, id) == prev

\* a task without the try/catch: the rejection escapes
escapedWithoutCatch(r) == IF awaitRejects(r) THEN {r} ELSE {}

\* errors escaping the task: the try/catch around fetch and res.blob() swallows all of them
escaped(r) == {}

\* a task whose update is applied whether or not the issuing view is still mounted
fetchTaskIgnoresLive(prev, id, k, r, live) ==
    IF awaitRejects(r) \/ ~resOk(r)
      THEN [images |-> onFailure(prev, id), created |-> {}, status |-> "failed",
            escaped |-> escaped(r)]
      ELSE [images |-> setImages(prev, id, k),
            created |-> {k}, status |-> r, escaped |-> {}]

\* the async callback of forecastImages.forEach from `await fetch(url)` on, for request k
\* (panel id) answered with r; `live` tells whether the issuing view is still mounted.
\* The object URL of request k is named k.
fetchTask(prev, id, k, r, live) ==
    IF awaitRejects(r) \/ ~resOk(r)
      THEN [images |-> onFailure(prev, id), created |-> {}, status |-> "failed",
            escaped |-> escaped(r)]
      ELSE [images |-> IF live THEN setImages(prev, id, k) ELSE prev,
            created |-> {k}, status |-> r, escaped |-> {}]

----------------------------------------------------------------------------
(* The whole state as one value, for operations written as state transformers *)

State ==
    [activeSection |-> activeSection, viewId |-> viewId, mounts |-> mounts,
     selectedDate |-> selectedDate, images |-> images, requests |-> requests]

\* a dashboard that keeps the handle map across section switches (state lifted out of the view)
onSectionChangeKeepsImages(st, section) ==
    LET next   == setActiveSection(st.activeSection, section)
        oldC   == renderActiveSection(st.activeSection)
        newC   == renderActiveSection(next)
    IN  IF newC = oldC
          THEN [st EXCEPT !.activeSection = next]
        ELSE IF newC = "ForecastingSection"
          THEN [st EXCEPT !.activeSection = next,
                          !.viewId = st.mounts + 1,
                          !.mounts = st.mounts + 1,
                          !.selectedDate = Today,
                          !.requests = useEffect(st.requests, st.mounts + 1, Today)]
        ELSE IF oldC = "ForecastingSection"
          THEN [st EXCEPT !.activeSection = next,
                          !.viewId = 0,
                          !.selectedDate = Undefined]
        ELSE [st EXCEPT !.activeSection = next]

\* BessNavigation onClick -> onSectionChange(item.id) -> setActiveSection, then the re-render of
\* BessDashboard: a changed component type unmounts the old view and mounts a fresh one; a
\* freshly mounted ForecastingSection initialises its state and runs its effect
onSectionChange(st, section) ==
    LET next   == setActiveSection(st.activeSection, section)
        oldC   == renderActiveSection(st.activeSection)
        newC   == renderActiveSection(next)
    IN  IF newC = oldC
          THEN [st EXCEPT !.activeSection = next]
        ELSE IF newC = "ForecastingSection"
          THEN [st EXCEPT !.activeSection = next,
                          !.viewId = st.mounts + 1,
                          !.mounts = st.mounts + 1,
                          !.selectedDate = Today,
                          !.images = NoImages,
                          !.requests = useEffect(st.requests, st.mounts + 1, Today)]
        ELSE IF oldC = "ForecastingSection"
          THEN [st EXCEPT !.activeSection = next,
                          !.viewId = 0,
                          !.selectedDate = Undefined,
                          !.images = NoImages]
        ELSE [st EXCEPT !.activeSection = next]

----------------------------------------------------------------------------
(* Rendering: what each view shows, derived from the state *)

\* a display area in which every block reads the handle of the first forecast panel
DisplayedFirstHandle(imgs, id) ==
    IF forecastImages[1].id \in DOMAIN imgs
      THEN <<"img", imgs[forecastImages[1].id]>> ELSE <<"placeholder">>

\* ForecastingSection, Image Display Area: images[forecast.id] ? <img src=...> : placeholder
Displayed(imgs, id) ==
    IF id \in DOMAIN imgs THEN <<"img", imgs[id]>> ELSE <<"placeholder">>

\* a label that keeps showing the date the view started with
dateLabelOfToday(date) == IF date # Undefined THEN format(Today) ELSE <<"N", "o", "n", "e">>

\* ForecastingSection: "Selected date will be sent to API: ..."
dateLabel(date) == IF date # Undefined THEN format(date) ELSE <<"N", "o", "n", "e">>

\* PredictionsSection: BASE
BASE == "http://localhost:3000/d-solo/a1ce40a4-3e62-4939-a48c-1343d0083aa1/security-and-incident-management?orgId=1&timezone=browser&theme=light&__feature.dashboardSceneSolo=true&kiosk"

\* panel URLs whose time range follows the date selected in the forecasting view
urlsDateDriven ==
    LET from == IF selectedDate # Undefined THEN format(selectedDate) ELSE <<>>
    IN  [gauges |-> <<BASE, "&from=", from, "&panelId=1">>,
         latest |-> <<BASE, "&from=", from, "&panelId=2">>,
         table  |-> <<BASE, "&from=", from, "&panelId=3">>,
         chart  |-> <<BASE, "&from=", from, "&panelId=4">>]

\* PredictionsSection: urls, each `${BASE}&from=...&to=...&panelId=n`
urls ==
    [gauges |-> <<BASE, "&from=1737723900000&to=1748088300000&panelId=1">>,
     latest |-> <<BASE, "&from=1737723900000&to=1748088300000&panelId=2">>,
     table  |-> <<BASE, "&from=1737723900000&to=1748088300000&panelId=3">>,
     chart  |-> <<BASE, "&from=1735650300000&to=1740402300000&panelId=4">>]

\* OverviewSection: grafanaIframes[i].src
grafanaIframes ==
    << "https://your-grafana-instance.com/d/system-status/embed",
       "https://your-grafana-instance.com/d/power-flow/embed",
       "https://your-grafana-instance.com/d/battery-metrics/embed",
       "https://your-grafana-instance.com/d/grid-status/embed",
       "https://your-grafana-instance.com/d/environmental/embed",
       "https://your-grafana-instance.com/d/alerts/embed" >>

\* the provider URLs each view renders: the four iframes of PredictionsSection, the src text of
\* the main panel of OverviewSection (grafanaIframes[1] in the source's 0-based indexing)
ProviderUrls(component) ==
    CASE component = "PredictionsSection" ->
           {urls.gauges, urls.latest, urls.table, urls.chart}
      [] component = "OverviewSection"    -> {<<grafanaIframes[2]>>}
      [] OTHER                            -> {}

\* what the main area of BessDashboard shows in state st
VisibleView(st) ==
    LET component == renderActiveSection(st.activeSection)
    IN  [component |-> component,
         provider  |-> ProviderUrls(component),
         dateLabel |-> IF component = "ForecastingSection"
                         THEN dateLabel(st.selectedDate) ELSE <<>>,
         panels    |-> IF component = "ForecastingSection"
                         THEN [i \in 1..Len(forecastImages) |->
                                  Displayed(st.images, forecastImages[i].id)]
                         ELSE <<>>]

----------------------------------------------------------------------------
(* Initial state: BessDashboard mounted with the overview section *)

Init ==
    /\ activeSection = "overview"
    /\ viewId = 0
    /\ mounts = 0
    /\ selectedDate = Undefined
    /\ images = NoImages
    /\ requests = <<>>
    /\ objectURLs = {}
    /\ uncaught = {}

\* the user clicks navigation item `section`
SelectSection(section) ==
    LET n == onSectionChange(State, section)
    IN  /\ Len(n.requests) <= MaxEffectRuns * Len(forecastImages)
        /\ activeSection' = n.activeSection
        /\ viewId' = n.viewId
        /\ mounts' = n.mounts
        /\ selectedDate' = n.selectedDate
        /\ images' = n.images
        /\ requests' = n.requests
        /\ UNCHANGED <<objectURLs, uncaught>>

\* the user clicks `day` in the calendar of the mounted forecasting view:
\* setSelectedDate(value), the re-render, and the effect run that the changed date triggers
\* a date selection that also clears the images of the previous date
SelectDateClearsImages(day) ==
    /\ viewId # 0
    /\ EffectRuns < MaxEffectRuns
    /\ selectedDate' = onSelect(selectedDate, day)
    /\ requests' = useEffect(requests, viewId, selectedDate')
    /\ images' = NoImages
    /\ UNCHANGED <<activeSection, viewId, mounts, objectURLs, uncaught>>

SelectDate(day) ==
    /\ viewId # 0
    /\ EffectRuns < MaxEffectRuns
    /\ selectedDate' = onSelect(selectedDate, day)
    /\ requests' = useEffect(requests, viewId, selectedDate')
    /\ UNCHANGED <<activeSection, viewId, mounts, images, objectURLs, uncaught>>

\* a task that re-issues its request when it fails
FetchCompletesRetries(k, r) ==
    /\ requests[k].status = "pending"
    /\ LET t == fetchTask(images, requests[k].panel, k, r,
                          viewId # 0 /\ requests[k].view = viewId)
       IN  /\ images' = t.images
           /\ objectURLs' = objectURLs \cup t.created
           /\ uncaught' = uncaught \cup t.escaped
           /\ requests' = [requests EXCEPT ![k].status = t.status]
                            \o (IF t.status = "failed" THEN <<requests[k]>> ELSE <<>>)
    /\ UNCHANGED <<activeSection, viewId, mounts, selectedDate>>

\* a task that sends the dashboard back to the overview when it fails
FetchCompletesFallsBack(k, r) ==
    /\ requests[k].status = "pending"
    /\ LET t == fetchTask(images, requests[k].panel, k, r,
                          viewId # 0 /\ requests[k].view = viewId)
       IN  /\ images' = t.images
           /\ objectURLs' = objectURLs \cup t.created
           /\ uncaught' = uncaught \cup t.escaped
           /\ requests' = [requests EXCEPT ![k].status = t.status]
           /\ activeSection' = IF t.status = "failed" THEN "overview" ELSE activeSection
    /\ UNCHANGED <<viewId, mounts, selectedDate>>

\* an effect without dependency list: the re-render after a stored image runs the effect
\* again, which fetches the view's other requests anew
FetchCompletesRerunsEffect(k, r) ==
    /\ requests[k].status = "pending"
    /\ LET t == fetchTask(images, requests[k].panel, k, r,
                          viewId # 0 /\ requests[k].view = viewId)
           rerun == viewId # 0 /\ requests[k].view = viewId /\ t.status # "failed"
       IN  /\ images' = t.images
           /\ objectURLs' = objectURLs \cup t.created
           /\ uncaught' = uncaught \cup t.escaped
           /\ requests' = [j \in 1..Len(requests) |->
                             IF j = k THEN [requests[j] EXCEPT !.status = t.status]
                             ELSE IF rerun /\ requests[j].view = viewId
                               THEN [requests[j] EXCEPT !.status = "pending"]
                             ELSE requests[j]]
    /\ UNCHANGED <<activeSection, viewId, mounts, selectedDate>>

\* the response r to pending request k arrives and the rest of its task runs
FetchCompletes(k, r) ==
    /\ requests[k].status = "pending"
    /\ LET t == fetchTask(images, requests[k].panel, k, r,
                          viewId # 0 /\ requests[k].view = viewId)
       IN  /\ images' = t.images
           /\ objectURLs' = objectURLs \cup t.created
           /\ uncaught' = uncaught \cup t.escaped
           /\ requests' = [requests EXCEPT ![k].status = t.status]
    /\ UNCHANGED <<activeSection, viewId, mounts, selectedDate>>

Next ==
    \/ \E s \in SectionIds : SelectSection(s)
    \/ \E d \in CalendarDays : SelectDate(d)
    \/ \E k \in 1..Len(requests), r \in Responses : FetchCompletes(k, r)

Spec == Init /\ [][Next]_vars

----------------------------------------------------------------------------
(* Fairness: the event loop does not idle while a response has arrived: as long as some fetch  *)
(* is pending, the continuation of one of them eventually runs                                   *)

CompleteSome == \E k \in 1..Len(requests), r \in Responses : FetchCompletes(k, r)

LiveSpec == Init /\ [][Next]_vars /\ WF_vars(CompleteSome)

----------------------------------------------------------------------------
(* Helpers of the properties *)

IsDigit(c) == \E d \in 1..10 : DigitChars[d] = c

DigitValue(c) == (CHOOSE d \in 1..10 : DigitChars[d] = c) - 1

RECURSIVE DigitsValue(_)
DigitsValue(str) ==
    IF str = <<>> THEN 0
    ELSE 10 * DigitsValue(SubSeq(str, 1, Len(str) - 1)) + DigitValue(str[Len(str)])

DaysInMonth(y, m) ==
    IF m \in {4, 6, 9, 11} THEN 30
    ELSE IF m = 2 THEN (IF (y % 4 = 0 /\ y % 100 # 0) \/ y % 400 = 0 THEN 29 ELSE 28)
    ELSE 31

\* str is YYYY-MM-DD: ten characters, digits around two hyphens, naming a day of the calendar
IsIsoDate(str) ==
    /\ Len(str) = 10
    /\ str[5] = "-" /\ str[8] = "-"
    /\ \A i \in {1, 2, 3, 4, 6, 7, 9, 10} : IsDigit(str[i])
    /\ LET y == DigitsValue(SubSeq(str, 1, 4))
           m == DigitsValue(SubSeq(str, 6, 7))
           d == DigitsValue(SubSeq(str, 9, 10))
       IN  m \in 1..12 /\ d \in 1..DaysInMonth(y, m)

\* str is the YYYY-MM-DD rendering of the calendar day of `date` (months counted from 1)
IsIsoDateOf(str, date) ==
    /\ IsIsoDate(str)
    /\ DigitsValue(SubSeq(str, 1, 4)) = date.year
    /\ DigitsValue(SubSeq(str, 6, 7)) = date.month + 1
    /\ DigitsValue(SubSeq(str, 9, 10)) = date.day

\* the view that issued request k is the one mounted
Live(k) == viewId # 0 /\ requests[k].view = viewId

----------------------------------------------------------------------------
(* C1: when the fetch issued for date d1 for a panel resolves successfully after the fetch      *)
(* issued later for d2 (d1 # d2) for the same panel of the same mounted view has resolved and    *)
(* is displayed, the panel keeps displaying the image returned for d2.                           *)

C1_StaleResponseSafety ==
    [][\A k \in 1..Len(requests) : \A k2 \in 1..Len(requests) :
         ( /\ k < k2
           /\ Live(k) /\ Live(k2)
           /\ requests[k].panel = requests[k2].panel
           /\ IsIsoDate(requests[k].url[3]) /\ IsIsoDate(requests[k2].url[3])
           /\ requests[k].url[3] # requests[k2].url[3]
           /\ requests[k2].status = "ok"
           /\ requests[k].panel \in DOMAIN images
           /\ images[requests[k].panel] = k2
           /\ FetchCompletes(k, "ok") )
         => images'[requests[k].panel] = k2 ]_vars

----------------------------------------------------------------------------
(* C2: the step that changes SelectedDate from a day d1 to another day d2 issues exactly one     *)
(* request per forecast panel, in addition to the requests already issued, each to the panel's   *)
(* endpoint with d2 rendered as yyyy-MM-dd as its date parameter, and no other request.          *)

C2_DateChangeIssuesOneFetchPerPanel ==
    [][( /\ viewId # 0 /\ viewId' = viewId
         /\ selectedDate # Undefined /\ selectedDate' # Undefined
         /\ ~isSameDay(selectedDate, selectedDate') )
       => /\ Len(requests') = Len(requests) + Len(forecastImages)
          /\ SubSeq(requests', 1, Len(requests)) = requests
          /\ \A i \in 1..Len(forecastImages) :
               LET q == requests'[Len(requests) + i]
               IN  /\ q.panel = forecastImages[i].id
                   /\ q.url[1] = forecastImages[i].apiEndpoint
                   /\ q.url[2] = "?date="
                   /\ IsIsoDateOf(q.url[3], selectedDate')
                   /\ q.view = viewId
                   /\ q.status = "pending" ]_vars

\* C2 witness: in a mounted view the date has just been changed from 1 June to 31 December
C2_Witness ==
    /\ viewId = 1
    /\ selectedDate = MkDate(2025, 11, 31, 0)
    /\ Len(requests) = 2 * Len(forecastImages)
    /\ requests[1].url[3] = format(Today)
    /\ \A k \in {3, 4} : requests[k].view = 1 /\ requests[k].status = "pending"

----------------------------------------------------------------------------
(* C3: when a forecast fetch fails (the transport throws or the status is not OK), the image    *)
(* handle of every panel is what it was before the failure, and no error escapes the task.       *)

C3_FailureLeavesHandles ==
    /\ [](uncaught = {})
    /\ [][\A k \in 1..Len(requests) :
            (FetchCompletes(k, "neterr") \/ FetchCompletes(k, "http500"))
            => images' = images /\ uncaught' = uncaught ]_vars

\* C3 witness: a fetch has failed for a panel of the mounted view that shows an image
C3_Witness ==
    /\ \E k \in 1..Len(requests) :
          /\ requests[k].status = "failed"
          /\ Live(k)
          /\ requests[k].panel \in DOMAIN images

----------------------------------------------------------------------------
(* C4: every image reference that the mounted forecasting view created and that is not yet      *)
(* released is the one currently stored in the handle map for its panel (at most one per         *)
(* panel): a reference replaced by a newer one has been released.                                *)

C4_ReplacedReferencesReleased ==
    \A k \in objectURLs :
        Live(k) => (requests[k].panel \in DOMAIN images /\ images[requests[k].panel] = k)

\* C4 witness of the scenario: a second image has been stored for a panel that already had one
C4_Scenario ==
    \E k \in objectURLs : \E k2 \in objectURLs :
        k < k2 /\ Live(k) /\ Live(k2) /\ requests[k].panel = requests[k2].panel

----------------------------------------------------------------------------
(* C5: the step that mounts the forecasting view with SelectedDate = d issues exactly one       *)
(* request per panel, energy-demand to /plot-soc and price-optimization to /plot-revenue, each   *)
(* with d as its date; and as long as that view stays mounted, its date is not changed and no    *)
(* request of it fails, each panel eventually displays the image returned to its request.        *)
(* A view that is unmounted never comes back (a later mount is a new view), so the mounted view  *)
(* either stays the same from some state on or the state with no view mounted is reached.        *)

\* the requests issued by view v
RequestsOf(v) == { k \in 1..Len(requests) : requests[k].view = v }

C5_LoadIssued ==
    [][(viewId' # viewId /\ viewId' # 0)
       => /\ selectedDate' = Today
          /\ Len(requests') = Len(requests) + 2
          /\ SubSeq(requests', 1, Len(requests)) = requests
          /\ LET q1 == requests'[Len(requests) + 1]
                 q2 == requests'[Len(requests) + 2]
             IN  /\ q1.panel = "energy-demand"
                 /\ q1.url[1] = "http://localhost:8000/plot-soc"
                 /\ q2.panel = "price-optimization"
                 /\ q2.url[1] = "http://localhost:8000/plot-revenue"
                 /\ \A q \in {q1, q2} :
                       /\ q.url[2] = "?date="
                       /\ IsIsoDateOf(q.url[3], selectedDate')
                       /\ q.view = viewId'
                       /\ q.status = "pending" ]_vars

C5_LoadDisplayed ==
    (viewId # 0)
    ~> ( \/ viewId = 0
         \/ Cardinality(RequestsOf(viewId)) # Len(forecastImages)
         \/ \E k \in RequestsOf(viewId) : requests[k].status = "failed"
         \/ \A k \in RequestsOf(viewId) :
               /\ requests[k].status \in {"ok", "malformed"}
               /\ Displayed(images, requests[k].panel) = <<"img", k>> )

C5_InitialLoad == C5_LoadIssued /\ C5_LoadDisplayed

\* C5 witness: the view still has its initial date and both panels show the image of their request
C5_Witness ==
    /\ viewId = 1
    /\ selectedDate = Today
    /\ RequestsOf(1) = {1, 2}
    /\ requests[1].url = <<"http://localhost:8000/plot-soc", "?date=",
                            <<"2", "0", "2", "5", "-", "0", "6", "-", "0", "1">> >>
    /\ Displayed(images, "energy-demand") = <<"img", 1>>
    /\ Displayed(images, "price-optimization") = <<"img", 2>>

----------------------------------------------------------------------------
(* C6 as stated: a response with OK status whose payload is not decodable as an image leaves     *)
(* the stored image handles exactly as they were, like a transport failure or a non-OK status.   *)

C6_MalformedIgnored ==
    [][\A k \in 1..Len(requests) :
         FetchCompletes(k, "malformed") => images' = images ]_vars

(* C6 amended: a response with OK status is stored whatever its payload holds: for a malformed  *)
(* payload too the task creates a new reference and, when the issuing view is still mounted,     *)
(* stores it under the panel's identifier in place of the prior handle, leaving the other        *)
(* panels' handles as they were; no error escapes. Only a transport failure or a non-OK status   *)
(* leaves the handle map unchanged.                                                              *)

C6_MalformedStored ==
    [][\A k \in 1..Len(requests) :
         /\ FetchCompletes(k, "malformed")
            => /\ k \in objectURLs'
               /\ uncaught' = {}
               /\ IF Live(k)
                    THEN /\ DOMAIN images' = DOMAIN images \cup {requests[k].panel}
                         /\ images'[requests[k].panel] = k
                         /\ \A p \in DOMAIN images \ {requests[k].panel} :
                               images'[p] = images[p]
                    ELSE images' = images
         /\ (FetchCompletes(k, "http500") \/ FetchCompletes(k, "neterr"))
            => images' = images /\ objectURLs' = objectURLs ]_vars

\* C6 witness: a malformed payload has replaced the image a panel displayed
C6_Witness ==
    /\ \E k \in 1..Len(requests) : \E k2 \in 1..Len(requests) :
          /\ k < k2
          /\ Live(k) /\ Live(k2)
          /\ requests[k].panel = requests[k2].panel
          /\ requests[k].status = "ok"
          /\ requests[k2].status = "malformed"
          /\ Displayed(images, requests[k2].panel) = <<"img", k2>>

----------------------------------------------------------------------------
(* C7: every forecast request ever issued is <panel endpoint>?date=YYYY-MM-DD, the date being   *)
(* the rendering of a valid calendar date; no request carries an empty date.                     *)

C7_RequestsCarryIsoDate ==
    \A k \in 1..Len(requests) :
        /\ \E i \in 1..Len(forecastImages) :
              /\ requests[k].panel = forecastImages[i].id
              /\ requests[k].url[1] = forecastImages[i].apiEndpoint
        /\ requests[k].url[2] = "?date="
        /\ IsIsoDate(requests[k].url[3])

----------------------------------------------------------------------------
(* C8: for every section identifier s and every reachable state, selecting s twice in a row     *)
(* leaves the same active Section and the same visible view as selecting s once.                 *)

C8_SelectSectionIdempotent ==
    \A s \in SectionIds :
        LET once  == onSectionChange(State, s)
            twice == onSectionChange(once, s)
        IN  /\ twice.activeSection = once.activeSection
            /\ VisibleView(twice) = VisibleView(once)

\* C8 witness: the forecasting section has been selected and its view shows a loaded image,
\* which a second selection of the section has to leave in place
C8_Witness ==
    /\ activeSection = "forecasting"
    /\ viewId # 0
    /\ DOMAIN images # {}
    /\ VisibleView(onSectionChange(State, "forecasting")) = VisibleView(State)

----------------------------------------------------------------------------
(* C9: selectSection(id) makes id the Section in the same step and mounts exactly the view of   *)
(* id (overview, forecasting, risk predictions); the Section never leaves the fixed set.         *)

\* the view the specification assigns to each section
ViewOfSection(s) ==
    CASE s = "overview"    -> "OverviewSection"
      [] s = "forecasting" -> "ForecastingSection"
      [] s = "predictions" -> "PredictionsSection"

C9_SelectSectionMounts ==
    /\ [](activeSection \in {"overview", "forecasting", "predictions"})
    /\ [][\A s \in {"overview", "forecasting", "predictions"} :
            SelectSection(s)
            => /\ activeSection' = s
               /\ VisibleView(State').component = ViewOfSection(s)
               /\ (viewId' # 0) <=> (s = "forecasting") ]_vars

\* C9 witness: the risk-predictions section has been selected after the forecasting section
C9_Witness ==
    /\ activeSection = "predictions"
    /\ mounts > 0
    /\ viewId = 0

----------------------------------------------------------------------------
(* C10: the URL embedded by each provider panel (the four risk-prediction iframes, the overview *)
(* panels) is the same in every reachable state: no section switch, date selection or fetch      *)
(* completion changes it.                                                                        *)

C10_ProviderUrlsConstant ==
    [][ /\ urls' = urls
        /\ grafanaIframes' = grafanaIframes
        /\ \A c \in {"OverviewSection", "ForecastingSection", "PredictionsSection"} :
              ProviderUrls(c)' = ProviderUrls(c)
        /\ (VisibleView(State).component = VisibleView(State').component
              => VisibleView(State').provider = VisibleView(State).provider) ]_vars

\* C10 witness: the risk-predictions view is shown after a date change and a completed fetch
C10_Witness ==
    /\ activeSection = "predictions"
    /\ ProviderUrls("PredictionsSection") = VisibleView(State).provider
    /\ Cardinality(VisibleView(State).provider) = 4
    /\ Len(requests) > Len(forecastImages)
    /\ objectURLs # {}

----------------------------------------------------------------------------
(* C11: SelectedDate starts as the current date and only a user's date selection changes it:   *)
(* a step that is a section switch or a fetch completion leaves the date held unchanged.         *)

C11_SelectedDateOnlyByUser ==
    /\ [](viewId # 0 /\ Cardinality(RequestsOf(viewId)) = Len(forecastImages)
            => selectedDate = Today)
    /\ [][ ( /\ selectedDate # Undefined
             /\ \/ \E s \in SectionIds : SelectSection(s)
                \/ \E k \in 1..Len(requests), r \in Responses : FetchCompletes(k, r) )
           => selectedDate' = selectedDate ]_vars

----------------------------------------------------------------------------
(* C12: apart from the requests of the initial render of a forecasting view, a request is       *)
(* issued only in a step that changes SelectedDate; a fetch completion (success or failure)      *)
(* issues none, and a section switch that mounts no forecasting view issues none.                *)

\* the step mounts a fresh forecasting view
MountsView == viewId' # viewId /\ viewId' # 0

C12_DateSelectionSoleTrigger ==
    [][ /\ Len(requests') >= Len(requests)
        /\ Len(requests') # Len(requests)
             => \/ MountsView
                \/ viewId # 0 /\ viewId' = viewId /\ selectedDate' # selectedDate
        /\ \A k \in 1..Len(requests), r \in Responses :
              FetchCompletes(k, r)
              => /\ Len(requests') = Len(requests)
                 /\ \A j \in 1..Len(requests) :
                       j # k => requests'[j] = requests[j]
        /\ \A s \in SectionIds :
              (SelectSection(s) /\ ~MountsView) => requests' = requests ]_vars

\* C12 witness: a request of the mounted view has failed, no date was selected, and the view
\* still has issued only the requests of its initial render
C12_Witness ==
    /\ viewId # 0
    /\ Cardinality(RequestsOf(viewId)) = Len(forecastImages)
    /\ \E k \in RequestsOf(viewId) : requests[k].status = "failed"
    /\ \A k \in 1..Len(requests) : requests[k].status # "pending"

----------------------------------------------------------------------------
(* C13: only a section selection writes the Section: a date selection and a fetch completion    *)
(* (success or failure) leave it unchanged, and every step that changes it is the selection of   *)
(* the value it takes.                                                                           *)

C13_SectionOnlyByNavigator ==
    [][ /\ \A d \in CalendarDays : SelectDate(d) => activeSection' = activeSection
        /\ \A k \in 1..Len(requests), r \in Responses :
              FetchCompletes(k, r) => activeSection' = activeSection
        /\ activeSection' # activeSection => SelectSection(activeSection') ]_vars

\* C13 witness: in the forecasting section a date was selected, one fetch failed, one succeeded
C13_Witness ==
    /\ activeSection = "forecasting"
    /\ Cardinality(RequestsOf(viewId)) > Len(forecastImages)
    /\ \E k \in 1..Len(requests) : requests[k].status = "failed"
    /\ \E k \in 1..Len(requests) : requests[k].status = "ok"

----------------------------------------------------------------------------
(* C14: a fetch of the mounted view that completes with an OK response for panel p stores the   *)
(* new reference under p only: p's entry becomes the new reference, every other panel's entry    *)
(* is unchanged, and in every state the reference stored under a panel was obtained from a       *)
(* request for that panel, sent to that panel's endpoint.                                        *)

\* the endpoint registered for panel p
EndpointOf(p) ==
    LET i == CHOOSE j \in 1..Len(forecastImages) : forecastImages[j].id = p
    IN  forecastImages[i].apiEndpoint

C14_SuccessStoresUnderOwnPanel ==
    /\ [](\A p \in DOMAIN images :
             /\ images[p] \in 1..Len(requests)
             /\ requests[images[p]].panel = p
             /\ requests[images[p]].url[1] = EndpointOf(p))
    /\ [][ \A k \in 1..Len(requests), r \in Responses :
              (FetchCompletes(k, r) /\ Live(k) /\ resOk(r) /\ ~awaitRejects(r))
              => /\ DOMAIN images' = DOMAIN images \cup {requests[k].panel}
                 /\ images'[requests[k].panel] = k
                 /\ \A q \in DOMAIN images :
                       q # requests[k].panel => images'[q] = images[q] ]_vars

\* C14 witness: both panels hold an image and the image of one of them has replaced an
\* earlier one (an earlier request of the same view for the same panel also resolved OK)
C14_Witness ==
    /\ DOMAIN images = PanelIds
    /\ \E j, k \in 1..Len(requests) :
          /\ j < k /\ Live(j) /\ Live(k)
          /\ requests[j].panel = requests[k].panel
          /\ requests[j].status = "ok" /\ requests[k].status = "ok"
          /\ images[requests[k].panel] = k

----------------------------------------------------------------------------
(* C15: in every state with the forecasting view mounted, the block of each forecast panel      *)
(* shows the stored image exactly when the handle map has an entry for the panel's identifier    *)
(* and the placeholder otherwise; a step that leaves the handle map unchanged leaves the         *)
(* blocks of the mounted view unchanged.                                                         *)

C15_DisplayFollowsHandleMap ==
    /\ [](viewId # 0
            => /\ VisibleView(State).component = "ForecastingSection"
               /\ \A i \in 1..Len(forecastImages) :
                     LET id    == forecastImages[i].id
                         shown == VisibleView(State).panels[i]
                     IN  /\ id \in DOMAIN images <=> shown[1] = "img"
                         /\ id \in DOMAIN images => shown = <<"img", images[id]>>
                         /\ id \notin DOMAIN images => shown = <<"placeholder">>)
    /\ [][ (viewId # 0 /\ viewId' # 0 /\ images' = images)
           => VisibleView(State)'.panels = VisibleView(State).panels ]_vars

\* C15 witness: the mounted view shows an image in one block and the placeholder in another
C15_Witness ==
    /\ viewId # 0
    /\ \E i, j \in 1..Len(forecastImages) :
          /\ VisibleView(State).panels[i][1] = "img"
          /\ VisibleView(State).panels[j] = <<"placeholder">>

----------------------------------------------------------------------------
(* C16: a date change leaves every request already issued as it is (none is cancelled or        *)
(* discarded) and stores nothing; and any request of the mounted view, of whatever effect run,   *)
(* that completes with an OK response has its image applied to its panel.                        *)

C16_NoCancellation ==
    [][ /\ \A d \in CalendarDays :
              SelectDate(d)
              => /\ \A k \in 1..Len(requests) : requests'[k] = requests[k]
                 /\ images' = images
        /\ \A k \in 1..Len(requests) :
              (FetchCompletes(k, "ok") /\ Live(k))
              => /\ requests[k].panel \in DOMAIN images'
                 /\ Displayed(images', requests[k].panel) = <<"img", k>> ]_vars

\* C16 witness: two requests of the mounted view for one panel were in flight at once, and
\* the older one completed OK after the newer one and is the image applied
C16_Witness ==
    \E j, k \in 1..Len(requests) :
       /\ k < j /\ Live(j) /\ Live(k)
       /\ requests[j].panel = requests[k].panel
       /\ requests[j].status = "ok"
       /\ requests[k].panel \in DOMAIN images
       /\ images[requests[k].panel] = k

\* C16 second case: two requests of the mounted view for one panel are in flight at once
C16_TwoInFlight ==
    \E j, k \in 1..Len(requests) :
       /\ k < j /\ Live(j) /\ Live(k)
       /\ requests[j].panel = requests[k].panel
       /\ requests[j].status = "pending" /\ requests[k].status = "pending"

----------------------------------------------------------------------------
(* C17: a fetch that completes when the forecasting view that issued it is no longer mounted    *)
(* changes neither the active section nor the selected date nor the image handles (of no view    *)
(* or of a view mounted later); the handles of the mounted view come from its own requests.      *)

C17_LateResultDiscarded ==
    /\ [](\A p \in DOMAIN images : Live(images[p]))
    /\ [][ \A k \in 1..Len(requests), r \in Responses :
              (FetchCompletes(k, r) /\ ~Live(k))
              => /\ activeSection' = activeSection
                 /\ selectedDate' = selectedDate
                 /\ viewId' = viewId
                 /\ images' = images ]_vars

\* C17 witness: a later forecasting view is mounted, a request of an earlier view has
\* resolved OK, and the mounted view shows no image for that request's panel
C17_Witness ==
    \E k \in 1..Len(requests) :
       /\ viewId # 0 /\ requests[k].view # viewId
       /\ requests[k].status = "ok"
       /\ k \in objectURLs
       /\ requests[k].panel \notin DOMAIN images

----------------------------------------------------------------------------
(* C18: a failing fetch changes nothing the view shows, issues no request and records no        *)
(* error; while a view stays mounted a panel's block changes only in a step where a request for  *)
(* that panel completes with an OK response, so a panel all of whose requests failed or are      *)
(* still pending shows the placeholder if it never loaded; no error is ever recorded.            *)

C18_SilentPermanentFailure ==
    /\ [](uncaught = {})
    /\ [](\A p \in PanelIds :
             (viewId # 0 /\ \A k \in RequestsOf(viewId) :
                               requests[k].panel = p
                               => requests[k].status \in {"failed", "pending"})
             => Displayed(images, p) = <<"placeholder">>)
    /\ [][ /\ \A k \in 1..Len(requests), r \in Responses :
                 (FetchCompletes(k, r) /\ (awaitRejects(r) \/ ~resOk(r)))
                 => /\ VisibleView(State)' = VisibleView(State)
                    /\ Len(requests') = Len(requests)
                    /\ requests'[k].status = "failed"
           /\ \A p \in PanelIds :
                 (viewId # 0 /\ viewId' = viewId
                    /\ Displayed(images', p) # Displayed(images, p))
                 => \E k \in 1..Len(requests) :
                       /\ requests[k].panel = p
                       /\ requests[k].status = "pending"
                       /\ requests'[k].status \in {"ok", "malformed"} ]_vars

\* C18 witness: the mounted view has run its effect twice and every request for one panel
\* has failed; the panel shows the placeholder
C18_Witness ==
    \E p \in PanelIds :
       /\ viewId # 0
       /\ Cardinality(RequestsOf(viewId)) > Len(forecastImages)
       /\ \A k \in RequestsOf(viewId) :
             requests[k].panel = p => requests[k].status = "failed"
       /\ Displayed(images, p) = <<"placeholder">>

----------------------------------------------------------------------------
(* C19: for two requests in flight for two distinct panels of the mounted view and any two      *)
(* responses, completing one then the other gives the same handle map as the opposite order,     *)
(* and after both the map holds the reference of each request that got an OK response.           *)

\* the handle map after request j (response rj) and then request k (response rk) complete
AfterBoth(j, rj, k, rk) ==
    LET first == fetchTask(images, requests[j].panel, j, rj, Live(j))
    IN  fetchTask(first.images, requests[k].panel, k, rk, Live(k)).images

C19_BothOrdersAgree ==
    \A j, k \in 1..Len(requests) :
       ( /\ requests[j].status = "pending" /\ requests[k].status = "pending"
         /\ Live(j) /\ Live(k)
         /\ requests[j].panel # requests[k].panel )
       => \A rj, rk \in Responses :
             /\ AfterBoth(j, rj, k, rk) = AfterBoth(k, rk, j, rj)
             /\ (resOk(rj) /\ ~awaitRejects(rj))
                  => /\ requests[j].panel \in DOMAIN AfterBoth(j, rj, k, rk)
                     /\ AfterBoth(j, rj, k, rk)[requests[j].panel] = j
             /\ (resOk(rk) /\ ~awaitRejects(rk))
                  => /\ requests[k].panel \in DOMAIN AfterBoth(j, rj, k, rk)
                     /\ AfterBoth(j, rj, k, rk)[requests[k].panel] = k

\* both orders agree in every state, and every completion step applies its update to the
\* handle map of the state it is taken in
C19_CompletionsCommute ==
    /\ []C19_BothOrdersAgree
    /\ [][ \A k \in 1..Len(requests), r \in Responses :
              FetchCompletes(k, r)
              => images' = fetchTask(images, requests[k].panel, k, r, Live(k)).images ]_vars

\* C19 witness: two requests of one effect run of the mounted view, for distinct panels,
\* have both resolved OK and the map holds both references
C19_Witness ==
    \E j, k \in 1..Len(requests) :
       /\ Live(j) /\ Live(k)
       /\ requests[j].panel # requests[k].panel
       /\ requests[j].url[3] = requests[k].url[3]
       /\ requests[j].status = "ok" /\ requests[k].status = "ok"
       /\ DOMAIN images = PanelIds
       /\ images[requests[j].panel] = j /\ images[requests[k].panel] = k

----------------------------------------------------------------------------
(* C20: in every step in which the same forecasting view stays mounted, every panel that has    *)
(* an image still has one afterwards: the set of panels with an image only grows.                *)

C20_ImagePanelsOnlyGrow ==
    [][ (viewId # 0 /\ viewId' = viewId)
        => /\ DOMAIN images \subseteq DOMAIN images'
           /\ \A p \in PanelIds :
                 Displayed(images, p)[1] = "img" => Displayed(images', p)[1] = "img" ]_vars

\* C20 witness: a panel shows an image of the first effect run of the mounted view although
\* a date was selected afterwards and the request of the new date for that panel failed
C20_Witness ==
    \E j, k \in 1..Len(requests) :
       /\ k < j /\ Live(j) /\ Live(k)
       /\ requests[j].panel = requests[k].panel
       /\ requests[j].status = "failed"
       /\ requests[k].panel \in DOMAIN images
       /\ images[requests[k].panel] = k

----------------------------------------------------------------------------
(* C21: selecting the forecasting section again after it was left mounts a fresh forecasting    *)
(* view: a view that issued none of the earlier requests, with an empty handle map (both panels  *)
(* show the placeholder), which issues exactly one new pending request per forecast panel for    *)
(* its initial date and leaves the earlier requests as they are.                                 *)

C21_ReturnStartsFreshView ==
    [][ (SelectSection("forecasting") /\ viewId = 0 /\ mounts >= 1)
        => /\ viewId' # 0
           /\ \A k \in 1..Len(requests) : requests[k].view # viewId'
           /\ images' = NoImages
           /\ \A i \in 1..Len(forecastImages) :
                 VisibleView(State)'.panels[i] = <<"placeholder">>
           /\ Len(requests') = Len(requests) + Len(forecastImages)
           /\ SubSeq(requests', 1, Len(requests)) = requests
           /\ \A i \in 1..Len(forecastImages) :
                 requests'[Len(requests) + i] =
                    [panel  |-> forecastImages[i].id,
                     url    |-> <<forecastImages[i].apiEndpoint, "?date=", format(selectedDate')>>,
                     view   |-> viewId',
                     status |-> "pending"] ]_vars

\* C21 witness: the second forecasting view is mounted, both requests of the first view
\* resolved OK, and the second view has an empty handle map and its two initial requests
C21_Witness ==
    /\ viewId = 2
    /\ \A k \in RequestsOf(1) : requests[k].status = "ok"
    /\ RequestsOf(1) # {}
    /\ images = NoImages
    /\ Cardinality(RequestsOf(2)) = Len(forecastImages)
    /\ \A k \in RequestsOf(2) : requests[k].status = "pending"

----------------------------------------------------------------------------
(* C22: in every reachable state exactly one navigation item is marked active, its identifier   *)
(* is the active section, and the view mounted in the main area is the view of that item (a      *)
(* forecasting view is mounted exactly when that item is the forecasting one).                   *)

\* the navigation items rendered as active
ActiveItems ==
    { i \in 1..Len(navigationItems) : isActive(activeSection, navigationItems[i]) }

C22_OneActiveItemMatchesView ==
    /\ Cardinality(ActiveItems) = 1
    /\ \A i \in ActiveItems :
          /\ navigationItems[i] = activeSection
          /\ VisibleView(State).component = ViewOfSection(navigationItems[i])
          /\ (viewId # 0) <=> (navigationItems[i] = "forecasting")

\* C22 witness: the forecasting item is the active one for the second time, after another
\* item had been active in between
C22_Witness ==
    /\ mounts = 2
    /\ ActiveItems = {2}
    /\ VisibleView(State).component = "ForecastingSection"

----------------------------------------------------------------------------
(* C23: in every state with a forecasting view mounted, the date the view shows after           *)
(* "Selected date will be sent to API:" equals the date parameter of the most recently issued    *)
(* request of each forecast panel.                                                               *)

\* the most recently issued request of the mounted view for panel p
LastRequestOf(p) ==
    CHOOSE k \in RequestsOf(viewId) :
       /\ requests[k].panel = p
       /\ \A j \in RequestsOf(viewId) : requests[j].panel = p => j <= k

----------------------------------------------------------------------------
(* C24: when completions are not postponed forever, every state with a request in flight is     *)
(* followed by a state with none in flight; and in a state with no request in flight the         *)
(* section, the selected date and the handle map change only in a step that is a section or      *)
(* date selection of the user.                                                                   *)

NoneInFlight == \A k \in 1..Len(requests) : requests[k].status # "pending"

C24_Quiescence ==
    /\ (~NoneInFlight) ~> NoneInFlight
    /\ [][ (NoneInFlight /\ ( \/ activeSection' # activeSection
                              \/ selectedDate' # selectedDate
                              \/ images' # images ))
           => \/ \E s \in SectionIds : SelectSection(s)
              \/ \E d \in CalendarDays : SelectDate(d) ]_vars

\* C24 witness: the mounted view has issued requests, none is in flight any more, one of them
\* failed and one stored its image
C24_Witness ==
    /\ viewId # 0
    /\ RequestsOf(viewId) # {}
    /\ NoneInFlight
    /\ \E k \in RequestsOf(viewId) : requests[k].status = "failed"
    /\ \E k \in RequestsOf(viewId) :
          requests[k].status = "ok" /\ Displayed(images, requests[k].panel) = <<"img", k>>

=============================================================================
